---- MODULE Spec2Model ----
(***************************************************************************)
(* Model of map.py of England_Weather_Forecast: the query rrt_value (river,*)
(* rain, tide and nearest-coast values for a batch of lat/long points) and *)
(* the plotting helpers riverplt / rainplt / tideplt it calls.  Further    *)
(* sections, each with its own variables and specification, model          *)
(* dataload.py (generate_dtlist, get_archive_data, load_archive_data), the *)
(* transform get_easting_northing_from_gps_lat_long evaluated numerically, *)
(* and get_all_recent_readings of live.py with its worker threads.         *)
(*                                                                         *)
(* Numbers.  Angles are integers counting units of 0.005 degree, so that   *)
(* the 0.05 degree cell is 10 units, the half cell (0.025) is 5 units and  *)
(* the second rounding step (2 decimals, 0.01 degree) is 2 units.  Metres  *)
(* are integers.  Arithmetic is exact: binary floating point error of      *)
(* x / 0.05 is outside the model.  A distance is carried as its square     *)
(* (sqrt is monotone, so minima and ties are the same).  The two non-finite*)
(* floats are the two reserved integers NaN and Inf, outside every range   *)
(* the model computes in.                                                  *)
(***************************************************************************)
EXTENDS Integers, Sequences, FiniteSets, TLC

VARIABLES
    long,         \* argument long of rrt_value: sequence of longitudes
    lat,          \* argument lat of rrt_value: sequence of latitudes
    from_live,    \* argument from_live of rrt_value
    pc,           \* position of the call inside rrt_value
    coordf,       \* the DataFrame coordf: a record of columns (sequences)
    env,          \* what the call reads from outside: the data files, the
                  \* grids the external gridding returns, the land mask,
                  \* the network
    river_latest, \* river_df.latestReading as used by riverplt (line 150)
    rain_latest,  \* rain_df.latestReading as used by rainplt (line 218)
    river_df,     \* raster returned by riverplt: sequence of [x, y, z]
    rain_df,      \* raster returned by rainplt
    tide_xyz,     \* grid returned by tideplt, with Easting/Northing added
    tide_df,      \* tide_xyz after pygmt.select: the fitted reference set
    idx_array,    \* visiting order of the fitted neighbour index
    processed,    \* per-point stages rrt_value has executed so far
    err,          \* exception that left rrt_value ("none" if none)
    result,       \* returned DataFrame: sequence of rows (<<>> before return)
    prev          \* the previous call on the same datasets, once it has ended

VARIABLES
    fn,           \* which function of dataload.py is running ("none" if none)
    start,        \* its argument start, rebound by line 59 once parsed
    end,          \* its argument end, rebound by line 63 once parsed
    kw,           \* its other arguments: count, assertion, overwrite, tbname,
                  \* staref
    dl_pc,        \* position of the call inside that function
    dtlist,       \* the list generate_dtlist returned
    dl_err,       \* exception that left the call ("none" if none)
    tables,       \* the sqlite database: table name -> sequence of rows
    fetched,      \* archive days downloaded so far, in order
    files,        \* the output directory: set of [name, content]
    idx           \* loop index of load_archive_data (line 178)

VARIABLES
    station_reference, \* argument of get_all_recent_readings
    lv_pc,        \* position of the main thread in get_all_recent_readings
    data,         \* station list after lines 143-157, in index order
    futures,      \* the submitted tasks, in submission order
    task,         \* task[i]: state of the future futures[i]
    done,         \* the set wait() returned (positions in futures), minus
                  \* the futures line 171 has iterated over
    stnvallist,   \* records appended by line 173, in order
    stnvaldf,     \* the returned table: its column labels, in order
    lv_err        \* exception that left the call ("none" if none)

VARIABLES
    geo           \* the running get_easting_northing_from_gps_lat_long call

map_vars == <<long, lat, from_live, pc, coordf, env, river_latest, rain_latest,
              river_df, rain_df, tide_xyz, tide_df, idx_array, processed, err,
              result, prev>>

dataload_vars == <<fn, start, end, kw, dl_pc, dtlist, dl_err, tables, fetched,
                   files, idx>>

live_vars == <<station_reference, lv_pc, data, futures, task, done,
               stnvallist, stnvaldf, lv_err>>

geo_vars == <<geo>>

vars == <<map_vars, dataload_vars, live_vars, geo_vars>>

(***************************************************************************)
(* Bounds of the model.                                                    *)
(***************************************************************************)
\* longest batch of query points
MaxPts == 2
\* single-point batches take their longitude within MaxCoord units of LongC
MaxCoord == 12

(***************************************************************************)
(* Program constants.                                                      *)
(***************************************************************************)
\* np.nan, and the float infinity, as reserved integers
NaN == 999999999
Inf == NaN - 1
\* 0.05 degree, the grid resolution of line 316 and of spacing=0.05
CellUnits == 10
\* 0.01 degree, the step of np.round(., 2)
CentiUnits == 2
\* lam_0 = -2 degrees, phi_0 = 49 degrees, E_0, N_0 of the Datum (lines 67-69)
lam_0 == -400
phi_0 == 9800
E_0 == 400000
N_0 == -100000

IsFinite(v) == v # NaN /\ v # Inf

(***************************************************************************)
(* np.round: round half to even.  n / d for an integer n and d > 0.        *)
(***************************************************************************)
RoundHalfAway(n, d) ==
    IF n >= 0 THEN (2 * n + d) \div (2 * d) ELSE -((2 * (-n) + d) \div (2 * d))

np_round(n, d) ==
    LET q == n \div d
        r == n % d
    IN  IF 2 * r < d THEN q
        ELSE IF 2 * r > d THEN q + 1
        ELSE IF q % 2 = 0 THEN q ELSE q + 1

(***************************************************************************)
(* lambda x: np.round(np.round(x / 0.05, 0) * 0.05, 2)   (line 316)        *)
(* NaN and inf pass through np.round unchanged.                            *)
(***************************************************************************)
snap_mismatch(x) ==
    IF ~IsFinite(x) THEN x
    ELSE np_round(np_round(x, CellUnits) * (CellUnits - CentiUnits), CentiUnits)
             * CentiUnits

snap(x) ==
    IF ~IsFinite(x) THEN x
    ELSE np_round(np_round(x, CellUnits) * CellUnits, CentiUnits) * CentiUnits

(***************************************************************************)
(* get_easting_northing_from_gps_lat_long (lines 73-99), the leading terms *)
(* of the series on the model's units, evaluated near phi = 52 degrees:    *)
(*   E = E_0 + IV (lam - lam_0)         IV = v cos(phi)  ~ 343 m per unit  *)
(*   N = I + II (lam - lam_0)^2         M  ~ 555 m per unit of phi - phi_0 *)
(*                                      II ~ 0.0118 m per unit^2           *)
(* A non-finite phi or lam makes sin/cos NaN or the sums inf - inf, so both*)
(* outputs are NaN; numpy raises nothing.                                  *)
(***************************************************************************)
Easting(phi, lam) ==
    IF ~IsFinite(phi) \/ ~IsFinite(lam) THEN NaN
    ELSE E_0 + 343 * (lam - lam_0)

Northing(phi, lam) ==
    IF ~IsFinite(phi) \/ ~IsFinite(lam) THEN NaN
    ELSE N_0 + 555 * (phi - phi_0)
             + (118 * (lam - lam_0) * (lam - lam_0)) \div 10000

(***************************************************************************)
(* live.py defines these functions and no other; map.py calls              *)
(* live.get_live_station_data (lines 142, 210).  A call of a name the      *)
(* module does not define raises AttributeError; a call with the network   *)
(* down raises URLError.  Both are caught by the bare except of riverplt / *)
(* rainplt (lines 145, 213).                                               *)
(***************************************************************************)
LiveModule ==
    {"get_live_station_measures", "get_live_station_readings", "retrieve_CSV",
     "get_all_recent_readings", "download_station_info",
     "download_all_station_info"}

live_call(name, up, readings) ==
    IF name \in LiveModule /\ up
    THEN [ok |-> TRUE, latestReading |-> readings]
    ELSE [ok |-> FALSE, latestReading |-> <<>>]

\* lines 136-146 / 204-214: the latestReading column the plot is made from
latestReading(csv, readings, live_data, up) ==
    IF live_data
    THEN LET live_df == live_call("get_live_station_data", up, readings)
         IN  IF live_df.ok THEN live_df.latestReading ELSE csv
    ELSE csv

(***************************************************************************)
(* pygmt.select(tide_df, mask='k/s/k/s/k') (line 327): drops the rows on   *)
(* land; the rows kept are renumbered 0..n-1 in their order.               *)
(***************************************************************************)
OnLand(r, land) == <<r.x, r.y>> \in land

select(df, land) == SelectSeq(df, LAMBDA r : ~OnLand(r, land))

(***************************************************************************)
(* retrval (lines 331-335): z of the first row whose x and y equal the     *)
(* snapped cell; IndexError (no such row) gives np.nan.  NaN == anything   *)
(* is False for floats, so a NaN cell matches no row.                      *)
(***************************************************************************)
Matches(infodf, locx, locy) ==
    {j \in DOMAIN infodf : infodf[j].x = locx /\ infodf[j].y = locy
                           /\ IsFinite(locx) /\ IsFinite(locy)}

Min(S) == CHOOSE m \in S : \A n \in S : m <= n

retrval_zero(infodf, locx, locy) ==
    LET m == Matches(infodf, locx, locy)
    IN  IF m = {} THEN 0 ELSE infodf[Min(m)].z

retrval_x_only(infodf, locx, locy) ==
    LET m == {j \in DOMAIN infodf : infodf[j].x = locx /\ IsFinite(locx)}
    IN  IF m = {} THEN NaN ELSE infodf[Min(m)].z

retrval(infodf, locx, locy) ==
    LET m == Matches(infodf, locx, locy)
    IN  IF m = {} THEN NaN ELSE infodf[Min(m)].z

(***************************************************************************)
(* NearestNeighbors(n_neighbors=1).fit / kneighbors (lines 328-329, 340).  *)
(* Dist2 is the squared Euclidean distance in (Easting, Northing).  The    *)
(* library index visits the fitted points in an order of its own           *)
(* (idx_array: identity for a brute-force scan, the tree's order for a     *)
(* k-d tree) and keeps a candidate only if it is strictly nearer than the  *)
(* one it holds, so among equidistant points the first visited wins.       *)
(* Indices are 1-based here, 0-based in Python.                            *)
(***************************************************************************)
Dist2(e, n, r) == (e - r.Easting) * (e - r.Easting)
                  + (n - r.Northing) * (n - r.Northing)

MinDist2(e, n, ref) == Min({Dist2(e, n, ref[j]) : j \in DOMAIN ref})

nearest_farthest(e, n, ref, visit) ==
    LET far == CHOOSE d \in {Dist2(e, n, ref[j]) : j \in DOMAIN ref} :
                   \A j \in DOMAIN ref : Dist2(e, n, ref[j]) <= d
        k == Min({k \in DOMAIN visit : Dist2(e, n, ref[visit[k]]) = far})
    IN  [dist |-> far, ind |-> visit[k]]

nearest(e, n, ref, visit) ==
    LET best == MinDist2(e, n, ref)
        k == Min({k \in DOMAIN visit : Dist2(e, n, ref[visit[k]]) = best})
    IN  [dist |-> best, ind |-> visit[k]]

Reverse(s) == [i \in DOMAIN s |-> s[Len(s) + 1 - i]]

kneighbors_reversed(E, N, ref, visit) ==
    Reverse([i \in DOMAIN E |-> nearest(E[i], N[i], ref, visit)])

kneighbors(E, N, ref, visit) ==
    [i \in DOMAIN E |-> nearest(E[i], N[i], ref, visit)]

\* sklearn's check_array on the query: at least one row, every entry finite
QueryAccepted(E, N) ==
    /\ Len(E) >= 1
    /\ \A i \in DOMAIN E : IsFinite(E[i]) /\ IsFinite(N[i])

(***************************************************************************)
(* The data the call reads.  Gridding (pygmt.blockmean / surface /         *)
(* grd2xyz) is external: its results are given, not computed.  z values    *)
(* are in tenths.  LongC, LatC = (-2.00, 52.00) degrees.                   *)
(***************************************************************************)
LongC == (0 - 2) * 200
LatC == 52 * 200

Row(x, y, z) == [x |-> x, y |-> y, z |-> z]

\* rasters of unique cells, as grd2xyz lists a grid
RiverRasters ==
    { <<Row(LongC, LatC, 8)>>,
      <<Row(LongC, LatC + 10, 0), Row(LongC, LatC, 8), Row(LongC + 10, LatC, 5)>> }

RainRasters ==
    { <<Row(LongC + 10, LatC, 0), Row(LongC, LatC, 3)>> }

TideGrids ==
    { <<Row(LongC - 10, LatC, 21), Row(LongC + 10, LatC, 34)>>,
      <<Row(LongC, LatC + 10, 5), Row(LongC - 10, LatC, 21),
        Row(LongC + 10, LatC, 34)>> }

AllCells == {<<x, y>> : x \in {LongC - 10, LongC, LongC + 10},
                        y \in {LatC, LatC + 10}}

Lands == { {}, {<<LongC, LatC + 10>>}, AllCells }

\* latestReading of riverdata.csv / raindata.csv, and of the Real Time API
RiverCSV == <<10, 20>>
RiverLive == <<11, 22>>
RainCSV == <<0, 2>>
RainLive == <<1, 3>>

Perms(n) == {p \in [1..n -> 1..n] : \A i, j \in 1..n : i # j => p[i] # p[j]}

Envs ==
    { [river |-> r, rain |-> q, tide |-> t, land |-> l, visit |-> v, up |-> u] :
        r \in RiverRasters, q \in RainRasters, t \in TideGrids, l \in Lands,
        v \in Perms(3), u \in BOOLEAN }

\* the visiting order restricted to the n points fitted
VisitOf(v, n) == SelectSeq(v, LAMBDA k : k <= n)

(***************************************************************************)
(* Query batches: long and lat of equal length.                            *)
(***************************************************************************)
SmallPts ==
    { <<LongC, LatC>>, <<LongC + 5, LatC>>, <<LongC + 30, LatC>>,
      <<NaN, LatC>>, <<LongC, Inf>> }

WidePts ==
    { <<x, y>> : x \in (LongC - MaxCoord)..(LongC + MaxCoord),
                 y \in {LatC, LatC + 5} }

RECURSIVE SeqsUpTo(_, _)
SeqsUpTo(S, n) ==
    IF n = 0 THEN {<<>>}
    ELSE LET shorter == SeqsUpTo(S, n - 1)
         IN  shorter \cup {Append(s, p) : s \in shorter, p \in S}

Batches == SeqsUpTo(SmallPts, MaxPts) \cup {<<p>> : p \in WidePts}

NoFrame == [none |-> TRUE]
NoPrev == [called |-> FALSE]

\* the tables get_archive_data and load_archive_data are called with
TableNames == {"temp", "other"}

\* a table of the sqlite file: whether it exists, its rows in insertion
\* order, and how many DROP TABLE statements have been executed on it
NoTable == [exists |-> FALSE, rows |-> <<>>, drops |-> 0]

NoTables == [t \in TableNames |-> NoTable]

\* no function of dataload.py is running
DataloadIdle ==
    /\ fn = "none" /\ start = NoFrame /\ end = NoFrame /\ kw = NoFrame
    /\ dl_pc = "idle" /\ dtlist = <<>> /\ dl_err = "none"
    /\ tables = NoTables /\ fetched = <<>> /\ files = {} /\ idx = 0

\* get_all_recent_readings is not running
LiveIdle ==
    /\ station_reference = <<>> /\ lv_pc = "idle" /\ data = <<>>
    /\ futures = <<>> /\ task = <<>> /\ done = {} /\ stnvallist = <<>>
    /\ stnvaldf = <<>> /\ lv_err = "none"

\* the transform is not running on its own
GeoIdle == geo = NoFrame

Fresh ==
    /\ pc = "transform"
    /\ coordf = NoFrame
    /\ river_latest = <<>> /\ rain_latest = <<>>
    /\ river_df = <<>> /\ rain_df = <<>>
    /\ tide_xyz = <<>> /\ tide_df = <<>> /\ idx_array = <<>>
    /\ processed = {}
    /\ err = "none"
    /\ result = <<>>

Init ==
    /\ \E b \in Batches :
          /\ long = [i \in DOMAIN b |-> b[i][1]]
          /\ lat = [i \in DOMAIN b |-> b[i][2]]
    /\ from_live \in BOOLEAN
    /\ env \in Envs
    /\ prev = NoPrev
    /\ Fresh
    /\ DataloadIdle /\ LiveIdle /\ GeoIdle

(***************************************************************************)
(* rrt_value, statement by statement.                                      *)
(***************************************************************************)
\* lines 311-314: project every point, build coordf
Transform ==
    /\ pc = "transform"
    /\ coordf' = [Longitude |-> long,
                  Latitude |-> lat,
                  Easting |-> [i \in DOMAIN lat |-> Easting(lat[i], long[i])],
                  Northing |-> [i \in DOMAIN lat |-> Northing(lat[i], long[i])]]
    /\ processed' = processed \cup {"transform"}
    /\ pc' = "snap"
    /\ UNCHANGED <<dataload_vars, live_vars, geo_vars,
                   long, lat, from_live, env, river_latest, rain_latest,
                   river_df, rain_df, tide_xyz, tide_df, idx_array, err,
                   result, prev>>

\* lines 315-317: the columns x, y
Snap ==
    /\ pc = "snap"
    /\ coordf' = [x |-> [i \in DOMAIN coordf.Longitude |->
                           snap(coordf.Longitude[i])],
                  y |-> [i \in DOMAIN coordf.Latitude |->
                           snap(coordf.Latitude[i])]] @@ coordf
    /\ processed' = processed \cup {"snap"}
    /\ pc' = "riverplt"
    /\ UNCHANGED <<dataload_vars, live_vars, geo_vars,
                   long, lat, from_live, env, river_latest, rain_latest,
                   river_df, rain_df, tide_xyz, tide_df, idx_array, err,
                   result, prev>>

\* line 320: riverplt(showplt=False, live_data=from_live), lines 133-169
RiverPlt ==
    /\ pc = "riverplt"
    /\ river_latest' = latestReading(RiverCSV, RiverLive, from_live, env.up)
    /\ river_df' = env.river
    /\ pc' = "rainplt"
    /\ UNCHANGED <<dataload_vars, live_vars, geo_vars,
                   long, lat, from_live, env, coordf, rain_latest, rain_df,
                   tide_xyz, tide_df, idx_array, processed, err, result, prev>>

\* line 321: rainplt(showplt=False, live_data=from_live), lines 201-237
RainPlt ==
    /\ pc = "rainplt"
    /\ rain_latest' = latestReading(RainCSV, RainLive, from_live, env.up)
    /\ rain_df' = env.rain
    /\ pc' = "tideplt"
    /\ UNCHANGED <<dataload_vars, live_vars, geo_vars,
                   long, lat, from_live, env, coordf, river_latest, river_df,
                   tide_xyz, tide_df, idx_array, processed, err, result, prev>>

\* lines 323-327: tideplt, projection of the grid, pygmt.select
TidePlt ==
    /\ pc = "tideplt"
    /\ tide_xyz' = [j \in DOMAIN env.tide |->
                      [x |-> env.tide[j].x, y |-> env.tide[j].y,
                       z |-> env.tide[j].z,
                       Easting |-> Easting(env.tide[j].y, env.tide[j].x),
                       Northing |-> Northing(env.tide[j].y, env.tide[j].x)]]
    /\ tide_df' = select(tide_xyz', env.land)
    /\ pc' = "fit"
    /\ UNCHANGED <<dataload_vars, live_vars, geo_vars,
                   long, lat, from_live, env, coordf, river_latest,
                   rain_latest, river_df, rain_df, idx_array, processed, err,
                   result, prev>>

\* lines 328-329: coast.fit; sklearn rejects an array of 0 samples (ValueError)
fit_rejects_never(df) == FALSE

fit_rejects(df) == Len(df) = 0

FitEmpty ==
    /\ pc = "fit"
    /\ fit_rejects(tide_df)
    /\ err' = "ValueError"
    /\ pc' = "error"
    /\ UNCHANGED <<dataload_vars, live_vars, geo_vars,
                   long, lat, from_live, env, coordf, river_latest,
                   rain_latest, river_df, rain_df, tide_xyz, tide_df,
                   idx_array, processed, result, prev>>

Fit ==
    /\ pc = "fit"
    /\ ~fit_rejects(tide_df)
    /\ idx_array' = VisitOf(env.visit, Len(tide_df))
    /\ pc' = "lookup"
    /\ UNCHANGED <<dataload_vars, live_vars, geo_vars,
                   long, lat, from_live, env, coordf, river_latest,
                   rain_latest, river_df, rain_df, tide_xyz, tide_df,
                   processed, err, result, prev>>

\* lines 337-338: riv_val and rain_val of every row
Lookup ==
    /\ pc = "lookup"
    /\ coordf' = [riv_val |-> [i \in DOMAIN coordf.x |->
                                 retrval(river_df, coordf.x[i], coordf.y[i])],
                  rain_val |-> [i \in DOMAIN coordf.x |->
                                  retrval(rain_df, coordf.x[i], coordf.y[i])]]
                 @@ coordf
    /\ processed' = processed \cup {"lookup"}
    /\ pc' = "kneighbors"
    /\ UNCHANGED <<dataload_vars, live_vars, geo_vars,
                   long, lat, from_live, env, river_latest, rain_latest,
                   river_df, rain_df, tide_xyz, tide_df, idx_array, err,
                   result, prev>>

\* line 340: the query is rejected as a whole (ValueError) if it has no row
\* or any non-finite entry
KneighborsRejected ==
    /\ pc = "kneighbors"
    /\ ~QueryAccepted(coordf.Easting, coordf.Northing)
    /\ err' = "ValueError"
    /\ pc' = "error"
    /\ UNCHANGED <<dataload_vars, live_vars, geo_vars,
                   long, lat, from_live, env, coordf, river_latest,
                   rain_latest, river_df, rain_df, tide_xyz, tide_df,
                   idx_array, processed, result, prev>>

\* line 340: coast_dist and (for now) the neighbour's index in tide_val
Kneighbors ==
    /\ pc = "kneighbors"
    /\ QueryAccepted(coordf.Easting, coordf.Northing)
    /\ LET nn == kneighbors(coordf.Easting, coordf.Northing, tide_df, idx_array)
       IN  coordf' = [coast_dist |-> [i \in DOMAIN nn |-> nn[i].dist],
                      tide_val |-> [i \in DOMAIN nn |-> nn[i].ind]] @@ coordf
    /\ processed' = processed \cup {"kneighbors"}
    /\ pc' = "iloc"
    /\ UNCHANGED <<dataload_vars, live_vars, geo_vars,
                   long, lat, from_live, env, river_latest, rain_latest,
                   river_df, rain_df, tide_xyz, tide_df, idx_array, err,
                   result, prev>>

\* line 341: tide_val becomes the z of that row of tide_df
iloc_z(df, i) == df[i].z

Iloc ==
    /\ pc = "iloc"
    /\ coordf' = [tide_val |-> [i \in DOMAIN coordf.tide_val |->
                                  iloc_z(tide_df, coordf.tide_val[i])]]
                 @@ coordf
    /\ pc' = "return"
    /\ UNCHANGED <<dataload_vars, live_vars, geo_vars,
                   long, lat, from_live, env, river_latest, rain_latest,
                   river_df, rain_df, tide_xyz, tide_df, idx_array, processed,
                   err, result, prev>>

\* line 343: coordf.drop(columns=['x','y']), as rows
Return ==
    /\ pc = "return"
    /\ result' = [i \in DOMAIN coordf.Longitude |->
                    [Longitude |-> coordf.Longitude[i],
                     Latitude |-> coordf.Latitude[i],
                     Easting |-> coordf.Easting[i],
                     Northing |-> coordf.Northing[i],
                     riv_val |-> coordf.riv_val[i],
                     rain_val |-> coordf.rain_val[i],
                     coast_dist |-> coordf.coast_dist[i],
                     tide_val |-> coordf.tide_val[i]]]
    /\ pc' = "done"
    /\ UNCHANGED <<dataload_vars, live_vars, geo_vars,
                   long, lat, from_live, env, coordf, river_latest,
                   rain_latest, river_df, rain_df, tide_xyz, tide_df,
                   idx_array, processed, err, prev>>

Next ==
    \/ Transform
    \/ Snap
    \/ RiverPlt
    \/ RainPlt
    \/ TidePlt
    \/ FitEmpty
    \/ Fit
    \/ Lookup
    \/ KneighborsRejected
    \/ Kneighbors
    \/ Iloc
    \/ Return

Spec == Init /\ [][Next]_vars

(***************************************************************************)
(* A second call of rrt_value on the same datasets, with another batch:    *)
(* the data files, grids, mask and network are those of the first call.    *)
(***************************************************************************)
AgainPts == { <<LongC, LatC>>, <<LongC + 30, LatC>>, <<NaN, LatC>> }

AgainBatches == SeqsUpTo(AgainPts, MaxPts)

AgainEnvs == {e \in Envs : e.visit = <<1, 2, 3>> /\ e.up}

InitAgain ==
    /\ \E b \in AgainBatches :
          /\ long = [i \in DOMAIN b |-> b[i][1]]
          /\ lat = [i \in DOMAIN b |-> b[i][2]]
    /\ from_live \in BOOLEAN
    /\ env \in AgainEnvs
    /\ prev = NoPrev
    /\ Fresh
    /\ DataloadIdle /\ LiveIdle /\ GeoIdle

Again ==
    /\ pc \in {"done", "error"}
    /\ ~prev.called
    /\ prev' = [called |-> TRUE, long |-> long, lat |-> lat, pc |-> pc,
                result |-> result]
    /\ \E b \in AgainBatches :
          /\ long' = [i \in DOMAIN b |-> b[i][1]]
          /\ lat' = [i \in DOMAIN b |-> b[i][2]]
    /\ pc' = "transform"
    /\ coordf' = NoFrame
    /\ river_latest' = <<>> /\ rain_latest' = <<>>
    /\ river_df' = <<>> /\ rain_df' = <<>>
    /\ tide_xyz' = <<>> /\ tide_df' = <<>> /\ idx_array' = <<>>
    /\ processed' = {}
    /\ err' = "none"
    /\ result' = <<>>
    /\ UNCHANGED <<dataload_vars, live_vars, geo_vars,
                   from_live, env>>

NextAgain == Next \/ Again

SpecAgain == InitAgain /\ [][NextAgain]_vars

(***************************************************************************)
(* Properties.                                                             *)
(***************************************************************************)
Rows == DOMAIN long

PointFinite(i) == IsFinite(long[i]) /\ IsFinite(lat[i])

Keys(df) == {<<df[j].x, df[j].y>> : j \in DOMAIN df}

CellOf(i) == <<snap(long[i]), snap(lat[i])>>

\* squared distance of query row i to row j of the fitted reference set
D2(i, j) == Dist2(Easting(lat[i], long[i]), Northing(lat[i], long[i]),
                  tide_df[j])

\* a brute-force linear scan in insertion order: index of the first point
\* that no later point beats strictly (scan of ref[1..k])
RECURSIVE Scan(_, _)
Scan(i, k) ==
    IF k = 1 THEN 1
    ELSE LET b == Scan(i, k - 1)
         IN  IF D2(i, k) < D2(i, b) THEN k ELSE b

BruteForce(i) == Scan(i, Len(tide_df))

Tied(i) == \E j, k \in DOMAIN tide_df :
               /\ j # k
               /\ D2(i, j) = D2(i, k)
               /\ \A m \in DOMAIN tide_df : D2(i, j) <= D2(i, m)

C2_MissingCellIsNaN ==
    /\ pc = "done" =>
          \A i \in Rows :
              /\ CellOf(i) \notin Keys(river_df) =>
                     result[i].riv_val = NaN /\ result[i].riv_val # 0
              /\ CellOf(i) \notin Keys(rain_df) =>
                     result[i].rain_val = NaN /\ result[i].rain_val # 0
              /\ \E j \in DOMAIN tide_df :
                     /\ result[i].coast_dist = D2(i, j)
                     /\ result[i].tide_val = tide_df[j].z
    /\ pc = "error" =>
          \/ "lookup" \notin processed /\ tide_df = <<>>
          \/ Rows = {}
          \/ \E i \in Rows : ~PointFinite(i)

C2_Witness ==
    /\ pc = "done"
    /\ \E i \in Rows : /\ CellOf(i) \notin Keys(river_df)
                       /\ CellOf(i) \notin Keys(rain_df)
                       /\ result[i].riv_val = NaN
                       /\ IsFinite(result[i].tide_val)

C4_NonFiniteIsPerPoint ==
    ~ /\ pc = "error"
      /\ tide_df # <<>>
      /\ \E i \in Rows : PointFinite(i)
      /\ \E i \in Rows : ~PointFinite(i)

\* C5: the table returned has one row per input point, in input order: row
\* i carries the i-th Longitude / Latitude and the values computed from it.
C5_OneRecordPerPointInOrder ==
    pc = "done" =>
        /\ Len(result) = Len(long)
        /\ \A i \in Rows :
             LET e == Easting(lat[i], long[i])
                 n == Northing(lat[i], long[i])
                 nn == nearest(e, n, tide_df, idx_array)
             IN  /\ result[i].Longitude = long[i]
                 /\ result[i].Latitude = lat[i]
                 /\ result[i].Easting = e
                 /\ result[i].Northing = n
                 /\ result[i].riv_val =
                        retrval(river_df, snap(long[i]), snap(lat[i]))
                 /\ result[i].rain_val =
                        retrval(rain_df, snap(long[i]), snap(lat[i]))
                 /\ result[i].coast_dist = nn.dist
                 /\ result[i].tide_val = tide_df[nn.ind].z

C5_Witness ==
    /\ pc = "done"
    /\ Len(result) >= 2
    /\ result[1].Longitude # result[2].Longitude
    /\ result[1].riv_val # result[2].riv_val
    /\ result[1].tide_val # result[2].tide_val

\* C6: no coupling between the points of a batch.  Two calls on the same
\* datasets: a finite point that got a record in the first call gets the
\* same record in the second, whatever the other points of the second
\* batch are.
C6_NoCoupling ==
    (prev.called /\ prev.pc = "done" /\ pc \in {"done", "error"}) =>
        \A i \in Rows, k \in DOMAIN prev.long :
            (long[i] = prev.long[k] /\ lat[i] = prev.lat[k] /\ PointFinite(i))
                => /\ pc = "done"
                   /\ result[i] = prev.result[k]

AfterSnap == pc \notin {"transform", "snap"}

\* C7: snapping is idempotent: snapping the snapped coordinate of a finite
\* Longitude / Latitude gives the snapped coordinate again.
C7_SnapIdempotent ==
    AfterSnap =>
        \A i \in Rows :
            /\ IsFinite(long[i]) => snap(coordf.x[i]) = coordf.x[i]
            /\ IsFinite(lat[i]) => snap(coordf.y[i]) = coordf.y[i]

C7_Witness ==
    /\ AfterSnap
    /\ \E i \in Rows : /\ PointFinite(i)
                       /\ coordf.x[i] # long[i]
                       /\ coordf.y[i] # lat[i]

Abs(v) == IF v < 0 THEN 0 - v ELSE v

\* s is c rounded to the cell grid, a half cell going to the even cell index
HalfEvenCell(c, s) ==
    /\ s % CellUnits = 0
    /\ 2 * Abs(s - c) <= CellUnits
    /\ 2 * Abs(s - c) = CellUnits => (s \div CellUnits) % 2 = 0

C9_ValuesOfCellAndNeighbour ==
    pc = "done" =>
        \A i \in Rows :
            /\ CellOf(i) \in Keys(river_df) =>
                   \E j \in DOMAIN river_df :
                       /\ <<river_df[j].x, river_df[j].y>> = CellOf(i)
                       /\ result[i].riv_val = river_df[j].z
            /\ \E j \in DOMAIN tide_df :
                   /\ Dist2(result[i].Easting, result[i].Northing, tide_df[j])
                          = result[i].coast_dist
                   /\ result[i].tide_val = tide_df[j].z

C9_Witness ==
    /\ pc = "done"
    /\ Len(tide_df) < Len(tide_xyz)
    /\ Len(river_df) > 1
    /\ \E i \in Rows : /\ CellOf(i) \in Keys(river_df)
                       /\ result[i].riv_val = 8
                       /\ result[i].tide_val \in {21, 34}

\* C10: with live_data=True and the Real Time API able to answer, the
\* latestReading values riverplt and rainplt work from are the live ones.
C10_LiveReadingsUsed ==
    (from_live /\ env.up) =>
        /\ pc \notin {"transform", "snap", "riverplt"} =>
               river_latest = RiverLive
        /\ pc \notin {"transform", "snap", "riverplt", "rainplt"} =>
               rain_latest = RainLive

(***************************************************************************)
(* dataload.py.  A time is a whole number of seconds counted from          *)
(* 2020-01-01 00:00:00 plus a number of nanoseconds (a pandas Timestamp    *)
(* has nanosecond resolution); the arguments carry no fraction of a        *)
(* second.  A text argument is its sequence of characters: a decimal digit *)
(* is its value, any other character is NonDigit.  The years the model     *)
(* computes with stay within 2018..2023, far from the range of the         *)
(* integers.                                                               *)
(***************************************************************************)
\* largest count passed to generate_dtlist / load_archive_data
MaxCount == 3

NonDigit == 10

isdigit(c) == c \in 0..9

Text(chars) == [kind |-> "text", chars |-> chars]

Datetime(secs) == [kind |-> "datetime", s |-> secs, ns |-> 0]

zfill(s, w) == IF Len(s) >= w THEN s ELSE [i \in 1..(w - Len(s)) |-> 0] \o s

\* s[13::-1]: the characters at positions 13 down to 0
slice_13_down(s) == Reverse(SubSeq(s, 1, Min({14, Len(s)})))

\* line 60: ''.join(filter(str.isdigit, str(x)))[13::-1].zfill(14)[::-1]
padded(chars) == Reverse(zfill(slice_13_down(SelectSeq(chars, isdigit)), 14))

RECURSIVE Num(_, _, _)
\* decimal value of the n characters of s that start at position i
Num(s, i, n) == IF n = 0 THEN 0 ELSE Num(s, i, n - 1) * 10 + s[i + n - 1]

IsLeap(y) == (y % 4 = 0 /\ y % 100 # 0) \/ y % 400 = 0

DaysIn(y, m) ==
    IF m = 2 THEN (IF IsLeap(y) THEN 28 + 1 ELSE 28)
    ELSE IF m \in {4, 6, 9, 11} THEN 30 ELSE 30 + 1

\* days from 1970-01-01 to the civil date y-m-d
days_from_civil(y, m, d) ==
    LET yy == IF m <= 2 THEN y - 1 ELSE y
        era == yy \div 400
        yoe == yy - era * 400
        mp == IF m > 2 THEN m - 3 ELSE m + 9
        doy == (153 * mp + 2) \div 5 + d - 1
        doe == yoe * 365 + yoe \div 4 - yoe \div 100 + doy
    IN era * 146097 + doe - 719468

Secs(y, m, d, H, M, S) ==
    (days_from_civil(y, m, d) - days_from_civil(2020, 1, 1)) * 86400
        + H * 3600 + M * 60 + S

\* datetime.strptime(s, "%Y%m%d%H%M%S") on 14 digits
strptime(s) ==
    LET y == Num(s, 1, 4)
        m == Num(s, 5, 2)
        d == Num(s, 7, 2)
        H == Num(s, 9, 2)
        M == Num(s, 11, 2)
        S == Num(s, 13, 2)
    IN IF /\ y >= 1 /\ m \in 1..12 /\ d >= 1 /\ d <= DaysIn(y, m)
          /\ H <= 23 /\ M <= 59 /\ S <= 59
       THEN Datetime(Secs(y, m, d, H, M, S))
       ELSE [kind |-> "ValueError"]

\* lines 58-61 and 63-66: a datetime is kept, anything else is parsed
to_datetime(x) ==
    IF x.kind = "datetime" THEN x ELSE strptime(padded(x.chars))

\* datetime.today() when dataload.py was imported (lines 16-17)
Today == Secs(2022, 10, 10, 12, 0, 0)
start_def == Today - 730 * 86400
end_def == Today - 2 * 86400

\* the two assert conditions, lines 69 and 71
assert_start(st, en) == st.s >= start_def /\ st.s < end_def /\ st.s <= en.s
\* an end check that forgets the upper limit
assert_end_lax(st, en) == en.s > start_def
assert_end(st, en) == en.s > start_def /\ en.s <= end_def

AssertionError == "AssertionError: Please choose a reasonable time range"

Giga == 1000 * 1000 * 1000

\* floor(r * 10^9 / d) for 0 <= r < d, three decimal digits at a time
NsFrac(r, d) ==
    LET d1 == (r * 1000) \div d
        r1 == (r * 1000) % d
        d2 == (r1 * 1000) \div d
        r2 == (r1 * 1000) % d
        d3 == (r2 * 1000) \div d
    IN d1 * 1000000 + d2 * 1000 + d3

\* np.linspace(0, span, div + 1, dtype=int64)[i] in nanoseconds, for a span
\* of whole seconds: i * span / div, cut towards zero by the integer cast
linspace(span, div, i) ==
    LET a == IF span < 0 THEN 0 - span ELSE span
        q == (i * a) \div div
        f == NsFrac((i * a) % div, div)
    IN IF span >= 0 THEN [s |-> q, ns |-> f]
       ELSE IF f = 0 THEN [s |-> 0 - q, ns |-> 0]
       ELSE [s |-> 0 - q - 1, ns |-> Giga - f]

\* a date_range that leaves the end point out
date_range_open(st, en, periods) ==
    [i \in 1..periods |->
        LET o == linspace(en.s - st.s, periods, i - 1)
        IN [kind |-> "datetime", s |-> st.s + o.s, ns |-> o.ns]]

\* pd.date_range(start, end, periods): linspace over the span, plus start
date_range(st, en, periods) ==
    [i \in 1..periods |->
        IF periods = 1 THEN st
        ELSE LET o == linspace(en.s - st.s, periods - 1, i - 1)
             IN [kind |-> "datetime", s |-> st.s + o.s, ns |-> o.ns]]

\* generate_dtlist as a function: what it raises or returns
generate_dtlist(start_arg, end_arg, count_arg, assertion_arg) ==
    LET st == to_datetime(start_arg)
        en == to_datetime(end_arg)
    IN IF st.kind = "ValueError" \/ en.kind = "ValueError"
       THEN [err |-> "ValueError", dtlist |-> <<>>]
       ELSE IF assertion_arg /\ ~(assert_start(st, en) /\ assert_end(st, en))
       THEN [err |-> AssertionError, dtlist |-> <<>>]
       ELSE [err |-> "none", dtlist |-> date_range(st, en, count_arg + 1)]

N2022040108 == Text(<<2, 0, 2, 2, 0, 4, 0, 1, 0, 8>>)
N2022040508 == Text(<<2, 0, 2, 2, 0, 4, 0, 5, 0, 8>>)
N20220401 == Text(<<2, 0, 2, 2, 0, 4, 0, 1>>)
\* "2022-09-01T09:15:45.000Z"
Iso20220901 ==
    Text(<<2, 0, 2, 2, NonDigit, 0, 9, NonDigit, 0, 1, NonDigit, 0, 9,
           NonDigit, 1, 5, NonDigit, 4, 5, NonDigit, 0, 0, 0, NonDigit>>)
N2022 == Text(<<2, 0, 2, 2>>)
N2019010100 == Text(<<2, 0, 1, 9, 0, 1, 0, 1, 0, 0>>)
N2022101000 == Text(<<2, 0, 2, 2, 1, 0, 1, 0, 0, 0>>)
D20220401T080010 == Datetime(Secs(2022, 4, 1, 8, 0, 10))

DtInputs == {N2022040108, N2022040508, N20220401, Iso20220901, N2022,
             N2019010100, N2022101000, D20220401T080010}

MapIdle ==
    /\ long = <<>> /\ lat = <<>> /\ from_live = FALSE
    /\ env = NoFrame /\ prev = NoPrev
    /\ Fresh

InitDtlist ==
    /\ MapIdle /\ LiveIdle /\ GeoIdle
    /\ fn = "generate_dtlist"
    /\ \E a \in DtInputs, b \in DtInputs, c \in 0..MaxCount, t \in BOOLEAN :
          /\ start = a /\ end = b
          /\ kw = [start |-> a, end |-> b, count |-> c, assertion |-> t]
    /\ dl_pc = "start"
    /\ dtlist = <<>> /\ dl_err = "none"
    /\ tables = NoTables /\ fetched = <<>> /\ files = {} /\ idx = 0

\* lines 58-61
ParseStart ==
    /\ fn = "generate_dtlist" /\ dl_pc = "start"
    /\ start' = to_datetime(start)
    /\ IF start'.kind = "ValueError"
       THEN dl_err' = "ValueError" /\ dl_pc' = "raised"
       ELSE dl_err' = dl_err /\ dl_pc' = "end"
    /\ UNCHANGED <<map_vars, live_vars, geo_vars, fn, end, kw, dtlist,
                   tables, fetched, files, idx>>

\* lines 63-66
ParseEnd ==
    /\ fn = "generate_dtlist" /\ dl_pc = "end"
    /\ end' = to_datetime(end)
    /\ IF end'.kind = "ValueError"
       THEN dl_err' = "ValueError" /\ dl_pc' = "raised"
       ELSE dl_err' = dl_err /\ dl_pc' = "assert"
    /\ UNCHANGED <<map_vars, live_vars, geo_vars, fn, start, kw, dtlist,
                   tables, fetched, files, idx>>

\* lines 68-72
AssertRange ==
    /\ fn = "generate_dtlist" /\ dl_pc = "assert"
    /\ IF kw.assertion /\ ~(assert_start(start, end) /\ assert_end(start, end))
       THEN dl_err' = AssertionError /\ dl_pc' = "raised"
       ELSE dl_err' = dl_err /\ dl_pc' = "date_range"
    /\ UNCHANGED <<map_vars, live_vars, geo_vars, fn, start, end, kw, dtlist,
                   tables, fetched, files, idx>>

\* line 74
DateRange ==
    /\ fn = "generate_dtlist" /\ dl_pc = "date_range"
    /\ dtlist' = date_range(start, end, kw.count + 1)
    /\ dl_pc' = "returned"
    /\ UNCHANGED <<map_vars, live_vars, geo_vars, fn, start, end, kw, dl_err,
                   tables, fetched, files, idx>>

NextDtlist ==
    \/ ParseStart
    \/ ParseEnd
    \/ AssertRange
    \/ DateRange

SpecDtlist == InitDtlist /\ [][NextDtlist]_vars

(***************************************************************************)
(* Properties of generate_dtlist.                                          *)
(***************************************************************************)
\* a digit text right-padded with zeros to the 14 digits of YYYYMMDDhhmmss
RightPadded(x) ==
    LET d == SelectSeq(x.chars, isdigit)
    IN [i \in 1..14 |-> IF i <= Len(d) THEN d[i] ELSE 0]

\* the time an argument stands for
Meant(x) == IF x.kind = "datetime" THEN x ELSE strptime(RightPadded(x))

NotAfter(t, u) == t.s < u.s \/ (t.s = u.s /\ t.ns <= u.ns)

NonDecreasing(l) == \A i \in 1..(Len(l) - 1) : NotAfter(l[i], l[i + 1])

\* the step from l[i] to l[i + 1], seconds and nanoseconds
Gap(l, i) ==
    IF l[i + 1].ns >= l[i].ns
    THEN [s |-> l[i + 1].s - l[i].s, ns |-> l[i + 1].ns - l[i].ns]
    ELSE [s |-> l[i + 1].s - l[i].s - 1, ns |-> Giga + l[i + 1].ns - l[i].ns]

\* two steps are the same up to the resolution of a Timestamp (1 ns)
SameStep(g, h) ==
    /\ Abs(g.s - h.s) <= 1
    /\ Abs((g.s - h.s) * Giga + g.ns - h.ns) <= 1

EvenlySpaced(l) ==
    \A i, j \in 1..(Len(l) - 1) : SameStep(Gap(l, i), Gap(l, j))

DtlistReturned ==
    fn = "generate_dtlist" /\ dl_pc = "returned" /\ kw.assertion

Reading(t, ref, v) == [dateTime |-> t, stationReference |-> ref, value |-> v]

Day == 86400

\* readings-full-<day>.csv of the archive, day counted from 2020-01-01
Archive(d) ==
    IF d = Secs(2022, 4, 1, 0, 0, 0) \div Day
    THEN <<Reading(d * Day + 8 * 3600, "A", 1),
           Reading(d * Day + 8 * 3600 + 900, "B", 2),
           Reading(d * Day + 8 * 3600 + 1800, "A", 3),
           Reading(d * Day + 9 * 3600, "A", 4)>>
    ELSE <<Reading(d * Day + 8 * 3600, "A", 5 + (d % 3))>>

\* the table a previous get_archive_data of 2022-04-01 left behind
Loaded ==
    [t \in TableNames |->
        IF t = "temp"
        THEN [exists |-> TRUE,
              rows |-> Archive(Secs(2022, 4, 1, 0, 0, 0) \div Day),
              drops |-> 0]
        ELSE NoTable]

N2022040109 == Text(<<2, 0, 2, 2, 0, 4, 0, 1, 0, 9>>)
N2022040308 == Text(<<2, 0, 2, 2, 0, 4, 0, 3, 0, 8>>)

ArchiveInputs == {N20220401, N2022040108, N2022040109, N2022040308, N2022,
                  N2019010100, N2022101000}

Starefs == { <<"A">>, <<"A", "B">> }

InitArchive ==
    /\ MapIdle /\ LiveIdle /\ GeoIdle
    /\ \E a \in ArchiveInputs, b \in ArchiveInputs, tb \in TableNames :
          /\ start = a /\ end = b
          /\ \/ /\ fn = "get_archive_data"
                /\ dl_pc = "generate_dtlist"
                /\ \E o \in BOOLEAN :
                      kw = [start |-> a, end |-> b, overwrite |-> o,
                            tbname |-> tb, nested |-> FALSE]
             \/ /\ fn = "load_archive_data"
                /\ dl_pc = "has_table"
                /\ \E c \in 0..MaxCount, st \in Starefs :
                      kw = [staref |-> st, start |-> a, end |-> b,
                            count |-> c, tbname |-> tb]
    /\ tables \in {NoTables, Loaded}
    /\ dtlist = <<>> /\ dl_err = "none"
    /\ fetched = <<>> /\ files = {} /\ idx = 0

\* bool(x) of a table name passed where a flag is expected
truthy(name) == name # ""

\* pd.date_range(dtlist[0], dtlist[-1]): one timestamp a day from the first;
\* each names the archive file of its date
archive_days(l) ==
    [k \in 1..((l[Len(l)].s - l[1].s) \div Day + 1) |->
        (l[1].s + (k - 1) * Day) \div Day]

\* line 105
GetDtlist ==
    /\ fn = "get_archive_data" /\ dl_pc = "generate_dtlist"
    /\ LET r == generate_dtlist(kw.start, kw.end, 1, TRUE)
       IN IF r.err # "none"
          THEN dl_err' = r.err /\ dl_pc' = "raised" /\ dtlist' = dtlist
          ELSE dl_err' = dl_err /\ dl_pc' = "drop" /\ dtlist' = r.dtlist
    /\ UNCHANGED <<map_vars, live_vars, geo_vars, fn, start, end, kw, tables,
                   fetched, files, idx>>

\* lines 111-112
DropTable ==
    /\ fn = "get_archive_data" /\ dl_pc = "drop"
    /\ tables' = IF kw.overwrite
                 THEN [tables EXCEPT
                          ![kw.tbname] = [exists |-> FALSE, rows |-> <<>>,
                                          drops |-> @.drops + 1]]
                 ELSE tables
    /\ dl_pc' = "fetch"
    /\ UNCHANGED <<map_vars, live_vars, geo_vars, fn, start, end, kw, dtlist,
                   dl_err, fetched, files, idx>>

\* lines 117-127, one archive day: download, append to the table
FetchDay ==
    /\ fn = "get_archive_data" /\ dl_pc = "fetch"
    /\ Len(fetched) < Len(archive_days(dtlist))
    /\ LET d == archive_days(dtlist)[Len(fetched) + 1]
       IN /\ fetched' = Append(fetched, d)
          /\ tables' = [tables EXCEPT
                           ![kw.tbname] = [exists |-> TRUE,
                                           rows |-> @.rows \o Archive(d),
                                           drops |-> @.drops]]
    /\ UNCHANGED <<map_vars, live_vars, geo_vars, fn, start, end, kw, dl_pc,
                   dtlist, dl_err, files, idx>>

\* line 121: urlopen raises, nothing in get_archive_data catches it
FetchFails ==
    /\ fn = "get_archive_data" /\ dl_pc = "fetch"
    /\ Len(fetched) < Len(archive_days(dtlist))
    /\ dl_err' = "URLError" /\ dl_pc' = "raised"
    /\ UNCHANGED <<map_vars, live_vars, geo_vars, fn, start, end, kw, dtlist,
                   tables, fetched, files, idx>>

\* line 129; a call made by load_archive_data resumes it at line 172
GetReturn ==
    /\ fn = "get_archive_data" /\ dl_pc = "fetch"
    /\ Len(fetched) = Len(archive_days(dtlist))
    /\ IF kw.nested
       THEN /\ fn' = "load_archive_data" /\ kw' = kw.caller
            /\ dl_pc' = "generate_dtlist" /\ dtlist' = <<>>
       ELSE /\ fn' = fn /\ kw' = kw
            /\ dl_pc' = "returned" /\ dtlist' = dtlist
    /\ UNCHANGED <<map_vars, live_vars, geo_vars, start, end, dl_err, tables,
                   fetched, files, idx>>

\* lines 169-170: get_archive_data(start, end, tbname) binds tbname to the
\* parameter overwrite and leaves the parameter tbname at its default 'temp'
HasTable ==
    /\ fn = "load_archive_data" /\ dl_pc = "has_table"
    /\ IF tables[kw.tbname].exists
       THEN fn' = fn /\ kw' = kw
       ELSE /\ fn' = "get_archive_data"
            /\ kw' = [start |-> kw.start, end |-> kw.end,
                      overwrite |-> truthy(kw.tbname), tbname |-> "temp",
                      nested |-> TRUE, caller |-> kw]
    /\ dl_pc' = "generate_dtlist"
    /\ UNCHANGED <<map_vars, live_vars, geo_vars, start, end, dtlist, dl_err,
                   tables, fetched, files, idx>>

\* line 176
LoadDtlist ==
    /\ fn = "load_archive_data" /\ dl_pc = "generate_dtlist"
    /\ LET r == generate_dtlist(kw.start, kw.end, kw.count, TRUE)
       IN IF r.err # "none"
          THEN dl_err' = r.err /\ dl_pc' = "raised" /\ dtlist' = dtlist
          ELSE dl_err' = dl_err /\ dl_pc' = "loop" /\ dtlist' = r.dtlist
    /\ idx' = 0
    /\ UNCHANGED <<map_vars, live_vars, geo_vars, fn, start, end, kw, tables,
                   fetched, files>>

\* strftime("%Y-%m-%dT%H:%M:%SZ"): the fraction of a second is dropped
strftime(t) == t.s

\* lowbound[:13]: the text up to the hour
upto_hour(bound) == bound \div 3600

InList(ref, l) == \E j \in DOMAIN l : l[j] = ref

\* lines 183-188: the readings selected, in table order
read_sql_query(rows, staref, upbound, lowbound) ==
    SelectSeq(rows, LAMBDA r : /\ InList(r.stationReference, staref)
                               /\ r.dateTime < upbound
                               /\ r.dateTime >= lowbound)

\* the columns of the query: stationReference, value
valser_of(sel) ==
    [j \in DOMAIN sel |-> [stationReference |-> sel[j].stationReference,
                           value |-> sel[j].value]]

\* open(outpath, 'w') and write: a file of that name is replaced
write_file(dir, name, content) ==
    {f \in dir : f.name # name} \cup {[name |-> name, content |-> content]}

\* lines 178-197, one pass of the loop: idx counts from 0; dtlist[idx+1]
\* past the end (IndexError) and a query on a missing table both land in
\* the bare except, which moves on
LoadInterval ==
    /\ fn = "load_archive_data" /\ dl_pc = "loop"
    /\ idx < Len(dtlist)
    /\ IF idx + 2 > Len(dtlist) \/ ~tables[kw.tbname].exists
       THEN files' = files
       ELSE LET upbound == strftime(dtlist[idx + 2])
                lowbound == strftime(dtlist[idx + 1])
                valser == valser_of(read_sql_query(tables[kw.tbname].rows,
                                        kw.staref, upbound, lowbound))
            IN files' = write_file(files, upto_hour(lowbound), valser)
    /\ idx' = idx + 1
    /\ UNCHANGED <<map_vars, live_vars, geo_vars, fn, start, end, kw, dl_pc,
                   dtlist, dl_err, tables, fetched>>

\* line 200
LoadReturn ==
    /\ fn = "load_archive_data" /\ dl_pc = "loop"
    /\ idx = Len(dtlist)
    /\ dl_pc' = "returned"
    /\ UNCHANGED <<map_vars, live_vars, geo_vars, fn, start, end, kw, dtlist,
                   dl_err, tables, fetched, files, idx>>

NextArchive ==
    \/ GetDtlist
    \/ DropTable
    \/ FetchDay
    \/ FetchFails
    \/ GetReturn
    \/ HasTable
    \/ LoadDtlist
    \/ LoadInterval
    \/ LoadReturn

SpecArchive == InitArchive /\ [][NextArchive]_vars

(***************************************************************************)
(* Properties of get_archive_data and load_archive_data.                   *)
(***************************************************************************)
\* both arguments stand for a date
RangeGiven ==
    Meant(kw.start).kind = "datetime" /\ Meant(kw.end).kind = "datetime"

\* within the last two years, ending no later than two days ago, in order
Reasonable ==
    /\ Meant(kw.start).s >= start_def
    /\ Meant(kw.end).s <= end_def
    /\ Meant(kw.start).s <= Meant(kw.end).s

NothingTouched ==
    /\ \A t \in TableNames : tables[t].drops = 0
    /\ fetched = <<>>
    /\ tables \in {NoTables, Loaded}

\* C12: get_archive_data goes past line 105 only for a range within the last
\* two years that ends no later than two days ago with start <= end; for any
\* other range it has failed with the 'Please choose a reasonable time range'
\* assertion, no table dropped, no archive file fetched, no row written.
C12_RangeCheckedBeforeAnyEffect ==
    (fn = "get_archive_data" /\ RangeGiven /\ dl_pc # "generate_dtlist") =>
        /\ dl_err # AssertionError => Reasonable
        /\ ~Reasonable =>
              /\ dl_pc = "raised" /\ dl_err = AssertionError
              /\ NothingTouched

\* an end later than two days ago, overwrite set, the table in place
C12_Witness ==
    /\ fn = "get_archive_data" /\ dl_pc = "raised"
    /\ dl_err = AssertionError
    /\ RangeGiven /\ Meant(kw.end).s > end_def
    /\ kw.overwrite /\ tables[kw.tbname].exists

Before(t, u) == t.s < u.s \/ (t.s = u.s /\ t.ns < u.ns)

\* the stored readings of the requested stations within interval i
IntervalReadings(i) ==
    valser_of(SelectSeq(tables[kw.tbname].rows,
        LAMBDA r : /\ InList(r.stationReference, kw.staref)
                   /\ NotAfter(dtlist[i], [s |-> r.dateTime, ns |-> 0])
                   /\ Before([s |-> r.dateTime, ns |-> 0], dtlist[i + 1])))

\* C13 as stated: load_archive_data with count = k leaves one output per
\* interval, k in all, the i-th holding exactly the stored readings of the
\* requested stations with dtlist[i] <= dateTime < dtlist[i+1]; no output
\* replaces another.  Stated for a range of positive length.
C13_OneOutputPerInterval ==
    (/\ fn = "load_archive_data" /\ dl_pc = "returned"
     /\ Before(dtlist[1], dtlist[Len(dtlist)])) =>
        /\ Cardinality(files) = kw.count
        /\ \A i \in 1..kw.count :
              \E f \in files : /\ f.name = upto_hour(strftime(dtlist[i]))
                               /\ f.content = IntervalReadings(i)

(***************************************************************************)
(* get_easting_northing_from_gps_lat_long on its own, evaluated in fixed   *)
(* point.  A real number x (an angle in radians, a sine, a ratio) is the   *)
(* integer x * Unit, Unit = 10^8; a length is an integer number of         *)
(* centimetres; an input in degrees is an integer number of hundredths of  *)
(* a degree.  v, rho and the coefficients II..VI are carried as multiples  *)
(* of a * F_0, M as a multiple of b * F_0.  Against the float evaluation   *)
(* of lines 67-99 the result is within 0.3 m on the points of GeoPts.      *)
(***************************************************************************)
\* the latitudes tried are 50.0 + 0.5 * i degrees, i in 0..GeoSteps
GeoSteps == 11

Unit == 10000 * 10000

\* the product of two fixed point numbers, cut towards zero; the factors are
\* split at 10^4 so that no partial product leaves the 32-bit range
Mul(x, y) ==
    LET a == Abs(x)
        b == Abs(y)
        ah == a \div 10000
        al == a % 10000
        bh == b \div 10000
        bl == b % 10000
        r == ah * bh + (ah * bl + al * bh) \div 10000 + (al * bl) \div Unit
    IN IF (x < 0) # (y < 0) THEN 0 - r ELSE r

\* np.deg2rad of c hundredths of a degree: c * pi / 18000
deg2rad(c) == c * 17453 + (c * 29252) \div 100000

RECURSIVE taylor(_, _, _, _)
\* the terms k, k+1, ... of the sine (odd) or cosine series, x2 = x * x
taylor(x2, k, term, odd) ==
    IF k > 9 THEN 0
    ELSE term + taylor(x2, k + 1,
                       0 - (Mul(term, x2) \div
                              (IF odd THEN (2 * k) * (2 * k + 1)
                               ELSE (2 * k - 1) * (2 * k))),
                       odd)

\* np.sin and np.cos on [-pi/2, 3 pi/2]
sin(x) ==
    LET pi == 314159265
    IN IF x > pi \div 2
       THEN 0 - taylor(Mul(x - pi, x - pi), 1, x - pi, TRUE)
       ELSE taylor(Mul(x, x), 1, x, TRUE)

cos(x) ==
    LET pi == 314159265
    IN IF x > pi \div 2
       THEN 0 - taylor(Mul(x - pi, x - pi), 1, Unit, FALSE)
       ELSE taylor(Mul(x, x), 1, Unit, FALSE)

RECURSIVE reciprocal(_, _, _)
\* 1 / b by k Newton steps from r
reciprocal(b, r, k) ==
    IF k = 0 THEN r
    ELSE reciprocal(b, Mul(r, 2 * Unit - Mul(b, r)), k - 1)

RECURSIVE rsqrt(_, _, _)
\* w ** (-0.5) by k Newton steps from y
rsqrt(w, y, k) ==
    IF k = 0 THEN y
    ELSE rsqrt(w, Mul(y, 3 * Unit - Mul(w, Mul(y, y))) \div 2, k - 1)

\* lines 67-99 for one point; phi, lam in radians
get_easting_northing_from_gps_lat_long(phi, lam) ==
    LET \* dat (lines 67-69): e2 (line 18), n (line 76), a * F_0 and
        \* b * F_0 in centimetres, phi_0 and lam_0 in radians
        e2 == 667054
        n == 167322
        aF0 == 637502048
        bF0 == 635372249
        phi0 == deg2rad(4900)
        lam0 == deg2rad(0 - 200)
        s == sin(phi)
        c == cos(phi)
        s2 == Mul(s, s)
        c2 == Mul(c, c)
        c3 == Mul(c2, c)
        c5 == Mul(c3, c2)
        tan2 == Mul(s2, reciprocal(c2, 3 * Unit, 5))
        tan4 == Mul(tan2, tan2)
        \* lines 77-80
        v == rsqrt(Unit - Mul(e2, s2), Unit, 4)
        rho == Mul(Unit - e2, Mul(v, Mul(v, v)))
        v_rho == Mul(v, reciprocal(rho, Unit, 5))
        eta2 == v_rho - Unit
        \* lines 82-85
        n2 == Mul(n, n)
        n3 == Mul(n2, n)
        d == phi - phi0
        sg == phi + phi0
        M == Mul(Unit + n + (5 * n2) \div 4 + (5 * n3) \div 4, d)
             - Mul(Mul(3 * n + 3 * n2 + (21 * n3) \div 8, sin(d)), cos(sg))
             + Mul(Mul((15 * n2) \div 8 + (15 * n3) \div 8, sin(2 * d)),
                   cos(2 * sg))
             - Mul(Mul((35 * n3) \div 24, sin(3 * d)), cos(3 * d))
        \* lines 88-94; the two polynomials with large coefficients are
        \* evaluated in units of 10^-6
        II == Mul(v \div 2, Mul(s, c))
        III == Mul(Mul(v \div 24, Mul(s, c3)), 5 * Unit - tan2 + 9 * eta2)
        IIIA == 100 * Mul(Mul(v \div 720, Mul(s, c5)),
                          61 * (Unit \div 100) - 58 * (tan2 \div 100)
                              + tan4 \div 100)
        IV == Mul(v, c)
        V == Mul(Mul(v \div 6, c3), v_rho - tan2)
        VI == 100 * Mul(Mul(v \div 120, c5),
                        5 * (Unit \div 100) - 18 * (tan2 \div 100)
                            + tan4 \div 100 + 14 * (eta2 \div 100)
                            - 58 * (Mul(tan2, eta2) \div 100))
        \* lines 96-97, in centimetres
        dl == lam - lam0
        dl2 == Mul(dl, dl)
        dl3 == Mul(dl2, dl)
        dl4 == Mul(dl2, dl2)
        dl5 == Mul(dl4, dl)
        dl6 == Mul(dl3, dl3)
    IN [E |-> 100 * E_0
                + Mul(Mul(IV, dl) + Mul(V, dl3) + Mul(VI, dl5), aF0),
        N |-> Mul(M, bF0) + 100 * N_0
                + Mul(Mul(II, dl2) + Mul(III, dl4) + Mul(IIIA, dl6), aF0)]

\* points over Great Britain, in hundredths of a degree: <<lat, long>>
GeoPts == {<<5000 + 50 * i, 100 * j - 554>> : i \in 0..GeoSteps, j \in 0..7}

InitGeo ==
    /\ MapIdle /\ DataloadIdle /\ LiveIdle
    /\ \E p \in GeoPts :
          \/ geo = [pc |-> "called", rads |-> FALSE, phi |-> p[1],
                    lam |-> p[2]]
          \/ geo = [pc |-> "called", rads |-> TRUE, phi |-> deg2rad(p[1]),
                    lam |-> deg2rad(p[2])]

\* lines 73-99
EastingNorthing ==
    /\ geo.pc = "called"
    /\ LET phi == IF geo.rads THEN geo.phi ELSE deg2rad(geo.phi)
           lam == IF geo.rads THEN geo.lam ELSE deg2rad(geo.lam)
           r == get_easting_northing_from_gps_lat_long(phi, lam)
       IN geo' = [geo EXCEPT !.pc = "returned"] @@ r
    /\ UNCHANGED <<map_vars, dataload_vars, live_vars>>

NextGeo == EastingNorthing

SpecGeo == InitGeo /\ [][NextGeo]_vars

\* C14: get_easting_northing_from_gps_lat_long([55.5], [-1.54]) returns
\* Easting 429157 and Northing 623009 to within 1 metre.
C14_DocumentedFixedPoint ==
    (/\ geo.pc = "returned" /\ ~geo.rads
     /\ geo.phi = 5550 /\ geo.lam = 0 - 154) =>
        /\ Abs(geo.E - 42915700) <= 100
        /\ Abs(geo.N - 62300900) <= 100

(***************************************************************************)
(* live.py, get_all_recent_readings: the main thread and the pool's worker *)
(* threads.  A future is its position in the list futures; its task is     *)
(* "pending" (queued), "running" (a worker is inside                       *)
(* get_live_station_readings), "ok" (returned) or "raised".  Whether a     *)
(* download returns or raises is the network's choice.                     *)
(***************************************************************************)
\* os.cpu_count()
Cpus == 1

\* stationReference column of the measures the API lists, with a repeat
LiveList == <<"A", "B", "A", "C">>

\* data[~data.index.duplicated(keep='last')]: the last row of each label
drop_duplicated(l) ==
    LET keep == {i \in DOMAIN l : \A j \in DOMAIN l : j > i => l[j] # l[i]}
        rank(i) == Cardinality({j \in keep : j <= i})
    IN [k \in 1..Cardinality(keep) |->
            l[CHOOSE i \in keep : rank(i) = k]]

\* lines 154-157: a str is a list of one; rows whose label is in the list
isin_filter(l, arg) ==
    IF arg.kind = "None" THEN l
    ELSE SelectSeq(l, LAMBDA ref : InList(ref, arg.refs))

StationArgs ==
    {[kind |-> "None"],
     [kind |-> "str", refs |-> <<"A">>],
     [kind |-> "list", refs |-> <<"A", "C">>],
     [kind |-> "list", refs |-> <<"C", "B", "A">>],
     [kind |-> "list", refs |-> <<"Z">>]}

InitLive ==
    /\ MapIdle /\ DataloadIdle /\ GeoIdle
    /\ station_reference \in StationArgs
    /\ lv_pc = "called"
    /\ data = <<>> /\ futures = <<>> /\ task = <<>> /\ done = {}
    /\ stnvallist = <<>> /\ stnvaldf = <<>> /\ lv_err = "none"

\* lines 130-135: without an argument the user is asked; "N" returns None
Prompt ==
    /\ lv_pc = "called"
    /\ \/ lv_pc' = "measures"
       \/ station_reference.kind = "None" /\ lv_pc' = "returned None"
    /\ UNCHANGED <<map_vars, dataload_vars, geo_vars, station_reference,
                   data, futures, task, done, stnvallist, stnvaldf, lv_err>>

\* lines 138-157: the station list arrives, or the try swallows the failure
\* and the assert of line 150 raises
Measures ==
    /\ lv_pc = "measures"
    /\ \/ /\ data' = isin_filter(drop_duplicated(LiveList), station_reference)
          /\ lv_pc' = "executor" /\ lv_err' = lv_err
       \/ /\ data' = data
          /\ lv_pc' = "raised"
          /\ lv_err' = "AssertionError: 504 Gateway Timeout Error"
    /\ UNCHANGED <<map_vars, dataload_vars, geo_vars, station_reference,
                   futures, task, done, stnvallist, stnvaldf>>

max_workers == Min({Cpus + 4, Len(data)})

\* lines 160-162: ThreadPoolExecutor rejects max_workers <= 0
Executor ==
    /\ lv_pc = "executor"
    /\ IF max_workers <= 0
       THEN lv_pc' = "raised" /\ lv_err' = "ValueError"
       ELSE lv_pc' = "submit" /\ lv_err' = lv_err
    /\ UNCHANGED <<map_vars, dataload_vars, geo_vars, station_reference,
                   data, futures, task, done, stnvallist, stnvaldf>>

\* lines 164-165, one pass of the loop
Submit ==
    /\ lv_pc = "submit"
    /\ futures' = Append(futures, data[Len(futures) + 1])
    /\ task' = Append(task, "pending")
    /\ lv_pc' = IF Len(futures') = Len(data) THEN "wait" ELSE "submit"
    /\ UNCHANGED <<map_vars, dataload_vars, geo_vars, station_reference,
                   data, done, stnvallist, stnvaldf, lv_err>>

\* a free worker takes a queued task
Start ==
    /\ \E i \in DOMAIN task :
          /\ task[i] = "pending"
          /\ Cardinality({j \in DOMAIN task : task[j] = "running"})
                < max_workers
          /\ task' = [task EXCEPT ![i] = "running"]
    /\ UNCHANGED <<map_vars, dataload_vars, geo_vars, station_reference,
                   lv_pc, data, futures, done, stnvallist, stnvaldf, lv_err>>

\* lines 73-82 in a worker: the download returns its dictionary
Succeed ==
    /\ \E i \in DOMAIN task :
          /\ task[i] = "running"
          /\ task' = [task EXCEPT ![i] = "ok"]
    /\ UNCHANGED <<map_vars, dataload_vars, geo_vars, station_reference,
                   lv_pc, data, futures, done, stnvallist, stnvaldf, lv_err>>

\* lines 73-79 in a worker: urlopen or the parsing raises
Fail ==
    /\ \E i \in DOMAIN task :
          /\ task[i] = "running"
          /\ task' = [task EXCEPT ![i] = "raised"]
    /\ UNCHANGED <<map_vars, dataload_vars, geo_vars, station_reference,
                   lv_pc, data, futures, done, stnvallist, stnvaldf, lv_err>>

\* line 168: wait(futures) returns once every future has finished
Wait ==
    /\ lv_pc = "wait"
    /\ \A i \in DOMAIN task : task[i] \in {"ok", "raised"}
    /\ done' = DOMAIN futures
    /\ lv_pc' = "collect"
    /\ UNCHANGED <<map_vars, dataload_vars, geo_vars, station_reference,
                   data, futures, task, stnvallist, stnvaldf, lv_err>>

\* lines 171-175, one pass: done is a set, iterated in no particular order
Collect ==
    /\ lv_pc = "collect"
    /\ \E i \in done :
          /\ done' = done \ {i}
          /\ stnvallist' = IF task[i] = "ok"
                           THEN Append(stnvallist, futures[i])
                           ELSE stnvallist
    /\ UNCHANGED <<map_vars, dataload_vars, geo_vars, station_reference,
                   lv_pc, data, futures, task, stnvaldf, lv_err>>

\* lines 177-184: a frame built from no record has no column
\* 'stationReference', and set_index raises KeyError
Build ==
    /\ lv_pc = "collect" /\ done = {}
    /\ IF stnvallist = <<>>
       THEN lv_pc' = "raised" /\ lv_err' = "KeyError" /\ stnvaldf' = stnvaldf
       ELSE lv_pc' = "returned" /\ lv_err' = lv_err /\ stnvaldf' = stnvallist
    /\ UNCHANGED <<map_vars, dataload_vars, geo_vars, station_reference,
                   data, futures, task, done, stnvallist>>

NextLive ==
    \/ Prompt
    \/ Measures
    \/ Executor
    \/ Submit
    \/ Start
    \/ Succeed
    \/ Fail
    \/ Wait
    \/ Collect
    \/ Build

SpecLive == InitLive /\ [][NextLive]_vars

\* the stations whose download returned
Succeeded == {futures[i] : i \in {j \in DOMAIN task : task[j] = "ok"}}

\* C15: once the tasks of a non-empty station list have been submitted and
\* the call has ended, it has returned, one task was submitted per station,
\* and the table holds exactly the stations whose download returned, each
\* once: a task that raises is skipped and aborts nothing.
C15_FailedTaskOnlySkipped ==
    (lv_pc \in {"returned", "raised"} /\ data # <<>>) =>
        /\ lv_pc = "returned"
        /\ futures = data
        /\ {stnvaldf[i] : i \in DOMAIN stnvaldf} = Succeeded
        /\ Len(stnvaldf) = Cardinality(Succeeded)

====
